---- MODULE Spec2Model ----
(***************************************************************************)
(* A model of loglyzer (src/src/main.rs): the parse -> filter -> aggregate *)
(* pipeline run by main, with the sequential and the parallel ingestion.    *)
(*                                                                         *)
(* A Rust String is a sequence of one-character strings; Option<T> is a    *)
(* sequence of length 0 (None) or 1 (Some); a HashMap is a function on its *)
(* key set; an f64 computed from small integers is the exact fraction      *)
(* <<numerator, denominator>> in lowest terms (rounding is not modelled).  *)
(* The report is its format and the statistics it shows; --verbose, which  *)
(* only adds timing lines on stderr, is left out.                          *)
(***************************************************************************)
EXTENDS Integers, Sequences, FiniteSets, TLC

VARIABLES
    pc,            \* the point main has reached
    args,          \* the command line, as given (raw strings)
    file,          \* the input file: [exists, size, content]
    cli,           \* Cli after Cli::parse(): [top, since, until]
    top_n,         \* main's top_n
    use_parallel,  \* main's use_parallel
    progress,      \* whether a progress bar was attached
    parsed,        \* Option<ParsedLogs>: [entries, skipped]
    search_lower,  \* main's search_lower
    filtered,      \* main's filtered batch
    stats,         \* Option<LogStats>
    analyze_calls, \* the batches analyze_logs was called with: <<[entries, top_n]>>
    out_file,      \* Option<content written to --output>
    stdout,        \* what was printed on stdout, in order
    stderr,        \* what was printed on stderr, in order
    io_error,      \* Option<[at, kind]>: the I/O failure the run met
    exit_code      \* Option<process exit status>

vars == <<pc, args, file, cli, top_n, use_parallel, progress, parsed, search_lower,
          filtered, stats, analyze_calls, out_file, stdout, stderr, io_error, exit_code>>

-----------------------------------------------------------------------------
(* Characters and strings *)

None == <<>>
Some(x) == <<x>>

Digits == <<"0", "1", "2", "3", "4", "5", "6", "7", "8", "9">>
LowerLetters == <<"a", "b", "c", "d", "e", "f", "g", "h", "i", "j", "k", "l", "m",
                  "n", "o", "p", "q", "r", "s", "t", "u", "v", "w", "x", "y", "z">>
UpperLetters == <<"A", "B", "C", "D", "E", "F", "G", "H", "I", "J", "K", "L", "M",
                  "N", "O", "P", "Q", "R", "S", "T", "U", "V", "W", "X", "Y", "Z">>

Range(s) == {s[i] : i \in DOMAIN s}
IndexIn(s, c) == CHOOSE i \in DOMAIN s : s[i] = c

IsDigit(c) == c \in Range(Digits)
IsLower(c) == c \in Range(LowerLetters)
IsUpper(c) == c \in Range(UpperLetters)
\* \s of the regex crate, on the characters of the model
IsSpace(c) == c \in {" ", "\t", "\n", "\r"}
\* \w of the regex crate, on the characters of the model
IsWord(c) == IsDigit(c) \/ IsLower(c) \/ IsUpper(c) \/ c = "_"
NotSpace(c) == ~IsSpace(c)

DigitVal(c) == IndexIn(Digits, c) - 1
ToUpperChar(c) == IF IsLower(c) THEN UpperLetters[IndexIn(LowerLetters, c)] ELSE c
ToLowerChar(c) == IF IsUpper(c) THEN LowerLetters[IndexIn(UpperLetters, c)] ELSE c
to_uppercase(s) == [i \in DOMAIN s |-> ToUpperChar(s[i])]
to_lowercase(s) == [i \in DOMAIN s |-> ToLowerChar(s[i])]

\* F applied to the value of v, which is computed once.
With(v, F(_)) == CHOOSE r \in {F(b) : b \in {v}} : TRUE

Min(a, b) == IF a <= b THEN a ELSE b
Max(a, b) == IF a >= b THEN a ELSE b

\* The number of consecutive characters of s from position i on that satisfy P.
RunLen(s, i, P(_)) ==
    IF i > Len(s) THEN 0
    ELSE CHOOSE n \in 0..(Len(s) - i + 1) :
            /\ \A k \in 0..(n - 1) : P(s[i + k])
            /\ (i + n > Len(s) \/ ~P(s[i + n]))

DigitsAt(s, i, n) == i + n - 1 <= Len(s) /\ \A k \in 0..(n - 1) : IsDigit(s[i + k])
CharAt(s, i, c) == i <= Len(s) /\ s[i] = c
Tail0(s, i) == SubSeq(s, i, Len(s))

\* The number a string of digits writes.
NumVal(s) ==
    LET val[i \in 0..Len(s)] == IF i = 0 THEN 0 ELSE 10 * val[i - 1] + DigitVal(s[i])
    IN  val[Len(s)]

RECURSIVE Pad(_, _)
\* format!("{:0w$}", n)
Pad(n, w) == IF w <= 0 /\ n = 0 THEN <<>> ELSE Pad(n \div 10, w - 1) \o <<Digits[(n % 10) + 1]>>

\* str::contains
Contains(hay, needle) ==
    \E i \in 1..(Len(hay) + 1) :
        /\ i + Len(needle) - 1 <= Len(hay)
        /\ SubSeq(hay, i, i + Len(needle) - 1) = needle
-----------------------------------------------------------------------------
(* chrono: NaiveDateTime::parse_from_str(s, "%Y-%m-%d %H:%M:%S") and format *)

IsLeap(y) == (y % 4 = 0 /\ y % 100 # 0) \/ y % 400 = 0
DaysIn(y, m) ==
    IF m = 2 THEN (IF IsLeap(y) THEN 29 ELSE 28)
    ELSE IF m \in {4, 6, 9, 11} THEN 30 ELSE 31

\* A numeric item of at most w digits read at position i, leading whitespace
\* skipped: [ok, val, next].
ScanNum(s, i, w) ==
    With(i + RunLen(s, i, IsSpace), LAMBDA j :
    With(Min(RunLen(s, j, IsDigit), w), LAMBDA n :
        [ok |-> n >= 1, val |-> With(SubSeq(s, j, j + n - 1), NumVal), next |-> j + n]))

\* The parse: a numeric item skips leading whitespace, the format's space matches
\* any run of whitespace, the literals match themselves, and nothing may follow
\* the seconds. A leap second (60) is accepted. (A signed year is not modelled.)
NaiveDateTime_parse_from_str(s) ==
    With(ScanNum(s, 1, 4), LAMBDA y :
    With(ScanNum(s, y.next + 1, 2), LAMBDA mo :
    With(ScanNum(s, mo.next + 1, 2), LAMBDA d :
    With(ScanNum(s, d.next + RunLen(s, d.next, IsSpace), 2), LAMBDA h :
    With(ScanNum(s, h.next + 1, 2), LAMBDA mi :
    With(ScanNum(s, mi.next + 1, 2), LAMBDA se :
        IF /\ y.ok /\ CharAt(s, y.next, "-")
           /\ mo.ok /\ CharAt(s, mo.next, "-")
           /\ d.ok
           /\ h.ok /\ CharAt(s, h.next, ":")
           /\ mi.ok /\ CharAt(s, mi.next, ":")
           /\ se.ok
           /\ se.next = Len(s) + 1
           /\ mo.val \in 1..12
           /\ d.val \in 1..DaysIn(y.val, mo.val)
           /\ h.val <= 23 /\ mi.val <= 59 /\ se.val <= 60
        THEN Some([year |-> y.val, month |-> mo.val, day |-> d.val,
                   hour |-> h.val, minute |-> mi.val, second |-> se.val])
        ELSE None))))))

\* The order of NaiveDateTime: field by field, the year first.
DateTimeFields(d) == <<d.year, d.month, d.day, d.hour, d.minute, d.second>>
DateTimeLess(a, b) ==
    LET x == DateTimeFields(a)
        y == DateTimeFields(b)
    IN  \E i \in 1..6 : x[i] < y[i] /\ \A j \in 1..(i - 1) : x[j] = y[j]
DateTimeLeq(a, b) == ~DateTimeLess(b, a)

\* d.format("%Y-%m-%d %H:%M:%S").to_string()
FormatDateTime(d) ==
    Pad(d.year, 4) \o <<"-">> \o Pad(d.month, 2) \o <<"-">> \o Pad(d.day, 2) \o <<" ">>
        \o Pad(d.hour, 2) \o <<":">> \o Pad(d.minute, 2) \o <<":">> \o Pad(d.second, 2)

-----------------------------------------------------------------------------
(* The line parser *)

\* LOG_RE.captures(line): ^(\d{4}-\d{2}-\d{2}\s+\d{2}:\d{2}:\d{2})\s+\[(\w+)\]\s+(.+)$
\* Every repetition is greedy; only the last \s+ can give characters back, and
\* does so when the whitespace after "]" runs to the end of the line. "." matches
\* any character but "\n", and "$" only the end of the text.
\* t: where the time starts; lb, rb: where "[" and "]" are; m: where the message
\* starts.
LOG_RE(line) ==
    With(11 + RunLen(line, 11, IsSpace), LAMBDA t :
    With(t + 8 + RunLen(line, t + 8, IsSpace), LAMBDA lb :
    With(lb + 1 + RunLen(line, lb + 1, IsWord), LAMBDA rb :
    With(RunLen(line, rb + 1, IsSpace), LAMBDA w3 :
    With(IF rb + w3 < Len(line) THEN rb + 1 + w3 ELSE Len(line), LAMBDA m :
        IF /\ DigitsAt(line, 1, 4) /\ CharAt(line, 5, "-")
           /\ DigitsAt(line, 6, 2) /\ CharAt(line, 8, "-")
           /\ DigitsAt(line, 9, 2)
           /\ t > 11
           /\ DigitsAt(line, t, 2) /\ CharAt(line, t + 2, ":")
           /\ DigitsAt(line, t + 3, 2) /\ CharAt(line, t + 5, ":")
           /\ DigitsAt(line, t + 6, 2)
           /\ lb > t + 8
           /\ CharAt(line, lb, "[")
           /\ rb > lb + 1
           /\ CharAt(line, rb, "]")
           /\ w3 >= 1
           /\ m > rb + 1
           /\ \A k \in m..Len(line) : line[k] # "\n"
        THEN Some([ts |-> SubSeq(line, 1, t + 7),
                   level |-> SubSeq(line, lb + 1, rb - 1),
                   msg |-> Tail0(line, m)])
        ELSE None)))))

\* from_str, had the WARN alias been forgotten.
from_str_without_alias(s) ==
    LET u == to_uppercase(s)
    IN  IF u = <<"I", "N", "F", "O">> THEN Some("Info")
        ELSE IF u = <<"W", "A", "R", "N", "I", "N", "G">> THEN Some("Warning")
        ELSE IF u = <<"E", "R", "R", "O", "R">> THEN Some("Error")
        ELSE IF u = <<"D", "E", "B", "U", "G">> THEN Some("Debug")
        ELSE None

\* LogLevel::from_str
from_str(s) ==
    LET u == to_uppercase(s)
    IN  IF u = <<"I", "N", "F", "O">> THEN Some("Info")
        ELSE IF u = <<"W", "A", "R", "N">> \/ u = <<"W", "A", "R", "N", "I", "N", "G">>
             THEN Some("Warning")
        ELSE IF u = <<"E", "R", "R", "O", "R">> THEN Some("Error")
        ELSE IF u = <<"D", "E", "B", "U", "G">> THEN Some("Debug")
        ELSE None

\* LogLevel::as_str
as_str(level) ==
    CASE level = "Info" -> <<"I", "N", "F", "O">>
      [] level = "Warning" -> <<"W", "A", "R", "N", "I", "N", "G">>
      [] level = "Error" -> <<"E", "R", "R", "O", "R">>
      [] level = "Debug" -> <<"D", "E", "B", "U", "G">>

parse_log_line(line) ==
    With(LOG_RE(line), LAMBDA caps :
        IF caps = None THEN None
        ELSE With(NaiveDateTime_parse_from_str(caps[1].ts), LAMBDA datetime :
             With(from_str(caps[1].level), LAMBDA level :
                IF datetime = None \/ level = None THEN None
                ELSE Some([timestamp |-> caps[1].ts,
                           datetime |-> datetime[1],
                           level |-> level[1],
                           message |-> caps[1].msg]))))
-----------------------------------------------------------------------------
(* Ingestion *)

\* The positions at which a read_line ends: each "\n", and the last character.
LineEnds(content) == {i \in DOMAIN content : content[i] = "\n" \/ i = Len(content)}
\* The last of the positions of ends before e, or 0.
PrevEnd(ends, e) ==
    IF \E x \in ends : x < e
    THEN CHOOSE x \in ends : x < e /\ \A z \in ends : z < e => z <= x
    ELSE 0

\* The successive results of BufRead::read_line on the content: each piece runs
\* up to and including its "\n"; the last one may have none.
ReadLines(content) ==
    With(LineEnds(content), LAMBDA ends :
        [k \in 1..Cardinality(ends) |->
            With(CHOOSE e \in ends : Cardinality({x \in ends : x < e}) = k - 1, LAMBDA e :
                SubSeq(content, PrevEnd(ends, e) + 1, e))])

IsLineEnd(c) == c \in {"\n", "\r"}

\* The number of characters at the end of s that satisfy P.
TrailLen(s, P(_)) ==
    CHOOSE n \in 0..Len(s) :
        /\ \A k \in 1..n : P(s[Len(s) - k + 1])
        /\ (n = Len(s) \/ ~P(s[Len(s) - n]))

\* buf.trim_end_matches(['\n', '\r'])
trim_end_matches(buf) == SubSeq(buf, 1, Len(buf) - TrailLen(buf, IsLineEnd))

\* One item of BufRead::lines(): the "\n" is dropped and, only then, one "\r".
LinesItem(buf) ==
    IF buf # <<>> /\ buf[Len(buf)] = "\n"
    THEN IF Len(buf) >= 2 /\ buf[Len(buf) - 1] = "\r"
         THEN SubSeq(buf, 1, Len(buf) - 2)
         ELSE SubSeq(buf, 1, Len(buf) - 1)
    ELSE buf

\* The values of the options of a sequence that are Some, in order.
FilterMap(options) ==
    LET acc[i \in 0..Len(options)] == IF i = 0 THEN <<>> ELSE acc[i - 1] \o options[i]
    IN  acc[Len(options)]

\* read_logs: the while loop over the pieces read_line returns.
read_logs(content) ==
    With(ReadLines(content), LAMBDA raw :
        LET loop[i \in 0..Len(raw)] ==
                IF i = 0 THEN [entries |-> <<>>, skipped |-> 0]
                ELSE With(loop[i - 1], LAMBDA acc :
                     With(With(trim_end_matches(raw[i]), parse_log_line), LAMBDA entry :
                        IF entry # None
                        THEN [acc EXCEPT !.entries = Append(@, entry[1])]
                        ELSE [acc EXCEPT !.skipped = @ + 1]))
        IN  loop[Len(raw)])

\* read_logs_parallel, had skipped been left at 0.
read_logs_parallel_skipped_unset(content) ==
    With(ReadLines(content), LAMBDA raw :
    With([i \in DOMAIN raw |-> LinesItem(raw[i])], LAMBDA lines :
    With(FilterMap([i \in DOMAIN lines |-> parse_log_line(lines[i])]), LAMBDA entries :
        [entries |-> entries, skipped |-> 0])))

\* read_logs_parallel: the lines are collected, then parsed; the entries are
\* collected in the order of the lines.
read_logs_parallel(content) ==
    With(ReadLines(content), LAMBDA raw :
    With([i \in DOMAIN raw |-> LinesItem(raw[i])], LAMBDA lines :
    With(FilterMap([i \in DOMAIN lines |-> parse_log_line(lines[i])]), LAMBDA entries :
        [entries |-> entries, skipped |-> 0 + Max(Len(lines) - Len(entries), 0)])))

-----------------------------------------------------------------------------
(* The filter pipeline *)

Haystack(e) ==
    to_lowercase(e.timestamp \o <<" ", "[">> \o as_str(e.level) \o <<"]", " ">> \o e.message)

\* The four filters, had the until bound been made exclusive.
Keeps_until_exclusive(e, errors_only, search_lower_, since, until) ==
    /\ (~errors_only \/ e.level = "Error")
    /\ (since = None \/ DateTimeLeq(since[1], e.datetime))
    /\ (until = None \/ DateTimeLess(e.datetime, until[1]))
    /\ (search_lower_ = None
        \/ With(Haystack(e), LAMBDA haystack : Contains(haystack, search_lower_[1])))

\* The four filters of filter_entries, on one entry.
Keeps(e, errors_only, search_lower_, since, until) ==
    /\ (~errors_only \/ e.level = "Error")
    /\ (since = None \/ DateTimeLeq(since[1], e.datetime))
    /\ (until = None \/ DateTimeLeq(e.datetime, until[1]))
    /\ (search_lower_ = None
        \/ With(Haystack(e), LAMBDA haystack : Contains(haystack, search_lower_[1])))

filter_entries(entries, errors_only, search_lower_, since, until) ==
    SelectSeq(entries, LAMBDA e : Keeps(e, errors_only, search_lower_, since, until))

-----------------------------------------------------------------------------
(* The aggregator *)

EmptyMap == <<>>
\* The increment, had it been written as an insert of 1.
Increment_overwrites(map, k) ==
    [x \in DOMAIN map \cup {k} |-> IF x = k THEN 1 ELSE map[x]]

\* *map.entry(k).or_insert(0) += 1
Increment(map, k) ==
    IF k \in DOMAIN map THEN [map EXCEPT ![k] = @ + 1]
    ELSE [x \in DOMAIN map \cup {k} |-> IF x = k THEN 1 ELSE map[x]]

\* ts.split_whitespace(): its first two fields, then the second one's part
\* before the first ':'
extract_hour(ts) ==
    With(1 + RunLen(ts, 1, IsSpace), LAMBDA d0 :
    With(d0 + RunLen(ts, d0, NotSpace), LAMBDA d1 :
    With(d1 + RunLen(ts, d1, IsSpace), LAMBDA t0 :
    With(SubSeq(ts, t0, t0 + RunLen(ts, t0, NotSpace) - 1), LAMBDA time :
        IF d1 = d0 \/ time = <<>> THEN None
        ELSE Some(SubSeq(time, 1, RunLen(time, 1, LAMBDA c : c # ":")) \o <<":", "0", "0">>)))))

\* The for loop of analyze_logs: the three maps after the entries.
Tally(entries) ==
    LET loop[i \in 0..Len(entries)] ==
            IF i = 0
            THEN [by_level |-> EmptyMap, error_messages |-> EmptyMap,
                  errors_by_hour |-> EmptyMap]
            ELSE With(loop[i - 1], LAMBDA acc :
                 With(entries[i], LAMBDA entry :
                 With(extract_hour(entry.timestamp), LAMBDA hour :
                    [by_level |-> Increment(acc.by_level, as_str(entry.level)),
                     error_messages |->
                        IF entry.level = "Error"
                        THEN Increment(acc.error_messages, entry.message)
                        ELSE acc.error_messages,
                     errors_by_hour |->
                        IF entry.level = "Error" /\ hour # None
                        THEN Increment(acc.errors_by_hour, hour[1])
                        ELSE acc.errors_by_hour])))
    IN  loop[Len(entries)]

RECURSIVE Gcd(_, _)
Gcd(a, b) == IF b = 0 THEN a ELSE Gcd(b, a % b)
\* The fraction a / b in lowest terms.
Frac(a, b) == With(Gcd(a, b), LAMBDA g : <<a \div g, b \div g>>)

\* The rate, had it been left a proportion.
Rate_as_proportion(v, len) == Frac(v, len)

\* (v as f64 / len as f64) * 100.0
Rate(v, len) == Frac(v * 100, len)

\* The sequences that hold each element of the set S once.
Orders(S) == {o \in [1..Cardinality(S) -> S] : \A i, j \in DOMAIN o : i # j => o[i] # o[j]}

\* The sort, had the comparison been written a.count.cmp(&b.count).
sort_by_count_asc(v) ==
    LET Rank(i) == 1 + Cardinality({j \in DOMAIN v :
                        v[j].count < v[i].count \/ (v[j].count = v[i].count /\ j < i)})
    IN  [p \in DOMAIN v |-> v[CHOOSE i \in DOMAIN v : Rank(i) = p]]

\* top_errors.sort_by(|a, b| b.count.cmp(&a.count)): a stable sort, so an element
\* comes after those of greater count and those of equal count that were before it.
sort_by_count_desc(v) ==
    LET Rank(i) == 1 + Cardinality({j \in DOMAIN v :
                        v[j].count > v[i].count \/ (v[j].count = v[i].count /\ j < i)})
    IN  [p \in DOMAIN v |-> v[CHOOSE i \in DOMAIN v : Rank(i) = p]]

\* The truncation, had it kept one element more.
truncate_off_by_one(v, n) == SubSeq(v, 1, Min(Len(v), n + 1))

\* Vec::truncate
truncate(v, n) == SubSeq(v, 1, Min(Len(v), n))

\* analyze_logs; order is the order in which error_messages.into_iter() yields
\* its keys (the iteration order of a HashMap: any order of the keys).
analyze_logs(entries, top, since, until, skipped, order) ==
    With(Tally(entries), LAMBDA maps :
    With([i \in DOMAIN order |->
            [message |-> order[i], count |-> maps.error_messages[order[i]]]],
         LAMBDA collected :
        [total_entries |-> Len(entries),
         by_level |-> maps.by_level,
         top_errors |-> truncate(With(collected, sort_by_count_desc), Max(top, 1)),
         errors_by_hour |-> maps.errors_by_hour,
         error_rate_by_hour |->
            IF entries = <<>> THEN EmptyMap
            ELSE [h \in DOMAIN maps.errors_by_hour |->
                    Rate(maps.errors_by_hour[h], Len(entries))],
         since |-> IF since = None THEN None ELSE Some(FormatDateTime(since[1])),
         until |-> IF until = None THEN None ELSE Some(FormatDateTime(until[1])),
         skipped_lines |-> skipped]))
-----------------------------------------------------------------------------
(* Argument validation: the value parsers clap runs inside Cli::parse *)

PARALLEL_THRESHOLD == 10 * 1024 * 1024
PROGRESS_THRESHOLD == 5 * 1024 * 1024
DefaultTop == 5

\* The messages, without their accents and their arguments.
MsgTopNotInteger == "La valeur de --top doit etre un entier positif"
MsgTopZero == "La valeur de --top doit etre au moins 1"
MsgDateFormat == "Format attendu: YYYY-MM-DD HH:MM:SS"
MsgNotFound == "Fichier introuvable"
MsgCannotRead == "Impossible de lire le fichier"
MsgNoMatch == "Aucune entree ne correspond aux filtres fournis."
MsgWritten == "Resultats ecrits dans"
MsgMainError == "Error"

Ok(v) == [ok |-> TRUE, val |-> Some(v), err |-> ""]
Err(e) == [ok |-> FALSE, val |-> None, err |-> e]

\* input.parse::<usize>(): an optional "+", then digits only. (The values of
\* the model are far below usize::MAX.)
parse_usize(input) ==
    LET body == IF input # <<>> /\ input[1] = "+" THEN Tail(input) ELSE input
    IN  IF body # <<>> /\ (\A i \in DOMAIN body : IsDigit(body[i]))
        THEN Some(NumVal(body)) ELSE None

\* parse_top without its check of 0.
parse_top_accepts_zero(input) ==
    LET value == parse_usize(input)
    IN  IF value = None THEN Err(MsgTopNotInteger) ELSE Ok(value[1])

parse_top(input) ==
    LET value == parse_usize(input)
    IN  IF value = None THEN Err(MsgTopNotInteger)
        ELSE IF value[1] = 0 THEN Err(MsgTopZero)
        ELSE Ok(value[1])

parse_datetime(input) ==
    LET d == NaiveDateTime_parse_from_str(input)
    IN  IF d = None THEN Err(MsgDateFormat) ELSE Ok(d[1])

should_use_progress(size) == size >= PROGRESS_THRESHOLD

\* The errors Cli::parse can end with on a command line. clap runs each value
\* parser as it meets the argument and stops at the first failure, so with two
\* invalid values the one reported is the first on the command line: either.
ArgErrors(a) ==
    (IF a.top # None /\ ~parse_top(a.top[1]).ok THEN {parse_top(a.top[1]).err} ELSE {})
    \cup (IF a.since # None /\ ~parse_datetime(a.since[1]).ok THEN {MsgDateFormat} ELSE {})
    \cup (IF a.until # None /\ ~parse_datetime(a.until[1]).ok THEN {MsgDateFormat} ELSE {})

\* The Cli of a valid command line.
CliOf(a) ==
    [top |-> IF a.top = None THEN DefaultTop ELSE parse_top(a.top[1]).val[1],
     since |-> IF a.since = None THEN None ELSE parse_datetime(a.since[1]).val,
     until |-> IF a.until = None THEN None ELSE parse_datetime(a.until[1]).val]

Line(msg, report) == [msg |-> msg, report |-> report]

-----------------------------------------------------------------------------
(* main *)

Exit(code, err, failure) ==
    /\ pc' = "done"
    /\ exit_code' = Some(code)
    /\ stderr' = stderr \o err
    /\ io_error' = failure

\* Cli::parse() fails: clap prints the error and exits with status 2.
ParseArgsErr ==
    /\ pc = "start"
    /\ \E e \in ArgErrors(args) : Exit(2, <<e>>, None)
    /\ UNCHANGED <<args, file, cli, top_n, use_parallel, progress, parsed, search_lower,
                   filtered, stats, analyze_calls, out_file, stdout>>

\* Cli::parse() succeeds; top_n = cli.top.max(1).
ParseArgsOk ==
    /\ pc = "start"
    /\ ArgErrors(args) = {}
    /\ cli' = Some(CliOf(args))
    /\ top_n' = Max(CliOf(args).top, 1)
    /\ pc' = "cli"
    /\ UNCHANGED <<args, file, use_parallel, progress, parsed, search_lower, filtered,
                   stats, analyze_calls, out_file, stdout, stderr, io_error, exit_code>>

\* fs::metadata fails with NotFound.
MetadataNotFound ==
    /\ pc = "cli"
    /\ ~file.exists
    /\ Exit(2, <<MsgNotFound>>, Some([at |-> "metadata", kind |-> "NotFound"]))
    /\ UNCHANGED <<args, file, cli, top_n, use_parallel, progress, parsed, search_lower,
                   filtered, stats, analyze_calls, out_file, stdout>>

\* fs::metadata fails with another kind of error.
MetadataError ==
    /\ pc = "cli"
    /\ file.exists
    /\ Exit(1, <<MsgCannotRead>>, Some([at |-> "metadata", kind |-> "PermissionDenied"]))
    /\ UNCHANGED <<args, file, cli, top_n, use_parallel, progress, parsed, search_lower,
                   filtered, stats, analyze_calls, out_file, stdout>>

\* MetadataOk, had the size been compared with >= PARALLEL_THRESHOLD.
MetadataOk_at_threshold ==
    /\ pc = "cli"
    /\ file.exists
    /\ use_parallel' = (args.parallel \/ file.size >= PARALLEL_THRESHOLD)
    /\ progress' = should_use_progress(file.size)
    /\ pc' = "mode"
    /\ UNCHANGED <<args, file, cli, top_n, parsed, search_lower, filtered, stats,
                   analyze_calls, out_file, stdout, stderr, io_error, exit_code>>

\* fs::metadata succeeds: the mode and the progress bar are chosen from the size.
MetadataOk ==
    /\ pc = "cli"
    /\ file.exists
    /\ use_parallel' = (args.parallel \/ file.size > PARALLEL_THRESHOLD)
    /\ progress' = should_use_progress(file.size)
    /\ pc' = "mode"
    /\ UNCHANGED <<args, file, cli, top_n, parsed, search_lower, filtered, stats,
                   analyze_calls, out_file, stdout, stderr, io_error, exit_code>>

\* The ingestion succeeds, in the mode chosen.
IngestOk ==
    /\ pc = "mode"
    /\ parsed' = Some(IF use_parallel THEN read_logs_parallel(file.content)
                      ELSE read_logs(file.content))
    /\ pc' = "parsed"
    /\ UNCHANGED <<args, file, cli, top_n, use_parallel, progress, search_lower, filtered,
                   stats, analyze_calls, out_file, stdout, stderr, io_error, exit_code>>

\* IngestNotFound with NotFound returned by main like any other error.
IngestNotFound_returned ==
    /\ pc = "mode"
    /\ file' = [file EXCEPT !.exists = FALSE]
    /\ Exit(1, <<MsgMainError>>, Some([at |-> "open", kind |-> "NotFound"]))
    /\ UNCHANGED <<args, cli, top_n, use_parallel, progress, parsed, search_lower,
                   filtered, stats, analyze_calls, out_file, stdout>>

\* File::open fails with NotFound: the file was removed after the metadata check.
IngestNotFound ==
    /\ pc = "mode"
    /\ file' = [file EXCEPT !.exists = FALSE]
    /\ Exit(2, <<MsgNotFound>>, Some([at |-> "open", kind |-> "NotFound"]))
    /\ UNCHANGED <<args, cli, top_n, use_parallel, progress, parsed, search_lower,
                   filtered, stats, analyze_calls, out_file, stdout>>

\* File::open or a read fails with another kind of error: main returns it.
IngestError ==
    /\ pc = "mode"
    /\ \E failure \in {[at |-> "open", kind |-> "PermissionDenied"],
                       [at |-> "read", kind |-> "InvalidData"]} :
          Exit(1, <<MsgMainError>>, Some(failure))
    /\ UNCHANGED <<args, file, cli, top_n, use_parallel, progress, parsed, search_lower,
                   filtered, stats, analyze_calls, out_file, stdout>>

\* search_lower and filter_entries.
Filter ==
    /\ pc = "parsed"
    /\ LET lower == IF args.search = None THEN None ELSE Some(to_lowercase(args.search[1]))
       IN  /\ search_lower' = lower
           /\ filtered' = filter_entries(parsed[1].entries, args.errors_only, lower,
                                         cli[1].since, cli[1].until)
    /\ pc' = "filtered"
    /\ UNCHANGED <<args, file, cli, top_n, use_parallel, progress, parsed, stats,
                   analyze_calls, out_file, stdout, stderr, io_error, exit_code>>

\* Nothing is left: the fixed message goes to the output file or to stdout.
NoMatch ==
    /\ pc = "filtered"
    /\ filtered = <<>>
    /\ IF args.output
       THEN /\ out_file' = Some(Line(MsgNoMatch, None))
            /\ stdout' = Append(stdout, Line(MsgWritten, None))
       ELSE /\ stdout' = Append(stdout, Line(MsgNoMatch, None))
            /\ UNCHANGED out_file
    /\ Exit(0, <<>>, None)
    /\ UNCHANGED <<args, file, cli, top_n, use_parallel, progress, parsed, search_lower,
                   filtered, stats, analyze_calls>>

\* Nothing is left and fs::write of the message fails: main returns the error.
NoMatchWriteError ==
    /\ pc = "filtered"
    /\ filtered = <<>>
    /\ args.output
    /\ \E kind \in {"PermissionDenied", "NotFound"} :
          Exit(1, <<MsgMainError>>, Some([at |-> "write", kind |-> kind]))
    /\ UNCHANGED <<args, file, cli, top_n, use_parallel, progress, parsed, search_lower,
                   filtered, stats, analyze_calls, out_file, stdout>>

\* The keys of analyze_logs's error_messages map for a batch.
ErrorMessageKeys(entries) ==
    {entries[i].message : i \in {j \in DOMAIN entries : entries[j].level = "Error"}}

\* Analyze without the early return of main on an empty batch.
Analyze_on_empty ==
    /\ pc = "filtered"
    /\ \E order \in Orders(ErrorMessageKeys(filtered)) :
          stats' = Some(analyze_logs(filtered, top_n, cli[1].since, cli[1].until,
                                     parsed[1].skipped, order))
    /\ analyze_calls' = Append(analyze_calls, [entries |-> filtered, top_n |-> top_n])
    /\ pc' = "analyzed"
    /\ UNCHANGED <<args, file, cli, top_n, use_parallel, progress, parsed, search_lower,
                   filtered, out_file, stdout, stderr, io_error, exit_code>>

\* analyze_logs is called on the filtered batch.
Analyze ==
    /\ pc = "filtered"
    /\ filtered # <<>>
    /\ \E order \in Orders(ErrorMessageKeys(filtered)) :
          stats' = Some(analyze_logs(filtered, top_n, cli[1].since, cli[1].until,
                                     parsed[1].skipped, order))
    /\ analyze_calls' = Append(analyze_calls, [entries |-> filtered, top_n |-> top_n])
    /\ pc' = "analyzed"
    /\ UNCHANGED <<args, file, cli, top_n, use_parallel, progress, parsed, search_lower,
                   filtered, out_file, stdout, stderr, io_error, exit_code>>

\* render_text / render_json / render_csv: the report, as its format and the
\* statistics it shows.
Render(format, s) == Line("", Some([format |-> format, stats |-> s]))

\* The report goes to the output file or to stdout.
Output ==
    /\ pc = "analyzed"
    /\ IF args.output
       THEN /\ out_file' = Some(Render(args.format, stats[1]))
            /\ stdout' = Append(stdout, Line(MsgWritten, None))
       ELSE /\ stdout' = Append(stdout, Render(args.format, stats[1]))
            /\ UNCHANGED out_file
    /\ Exit(0, <<>>, None)
    /\ UNCHANGED <<args, file, cli, top_n, use_parallel, progress, parsed, search_lower,
                   filtered, stats, analyze_calls>>

\* fs::write of the report fails: main returns the error.
OutputWriteError ==
    /\ pc = "analyzed"
    /\ args.output
    /\ \E kind \in {"PermissionDenied", "NotFound"} :
          Exit(1, <<MsgMainError>>, Some([at |-> "write", kind |-> kind]))
    /\ UNCHANGED <<args, file, cli, top_n, use_parallel, progress, parsed, search_lower,
                   filtered, stats, analyze_calls, out_file, stdout>>

Next ==
    \/ ParseArgsErr
    \/ ParseArgsOk
    \/ MetadataNotFound
    \/ MetadataError
    \/ MetadataOk
    \/ IngestOk
    \/ IngestNotFound
    \/ IngestError
    \/ Filter
    \/ NoMatch
    \/ NoMatchWriteError
    \/ Analyze
    \/ Output
    \/ OutputWriteError
-----------------------------------------------------------------------------
(* The command lines and the files of the model *)

MaxIngestLines == 2
MaxFilterLines == 2
MaxBatch == 3

Date_2024_01_15 == <<"2", "0", "2", "4", "-", "0", "1", "-", "1", "5">>
Date_2024_02_29 == <<"2", "0", "2", "4", "-", "0", "2", "-", "2", "9">>
Date_2023_02_29 == <<"2", "0", "2", "3", "-", "0", "2", "-", "2", "9">>
Date_2024_13_01 == <<"2", "0", "2", "4", "-", "1", "3", "-", "0", "1">>
Date_2024_1_15 == <<"2", "0", "2", "4", "-", "1", "-", "1", "5">>
Time_10_30_45 == <<"1", "0", ":", "3", "0", ":", "4", "5">>
Time_10_31_45 == <<"1", "0", ":", "3", "1", ":", "4", "5">>
Time_11_00_00 == <<"1", "1", ":", "0", "0", ":", "0", "0">>
Time_23_59_60 == <<"2", "3", ":", "5", "9", ":", "6", "0">>
Time_24_00_00 == <<"2", "4", ":", "0", "0", ":", "0", "0">>
Time_10_30 == <<"1", "0", ":", "3", "0">>

Ts1 == Date_2024_01_15 \o <<" ">> \o Time_10_30_45
Ts2 == Date_2024_01_15 \o <<" ">> \o Time_10_31_45
Ts3 == Date_2024_01_15 \o <<" ">> \o Time_11_00_00

TokINFO == <<"I", "N", "F", "O">>
TokERROR == <<"E", "R", "R", "O", "R">>
TokWARN == <<"W", "A", "R", "N">>
TokDEBUG == <<"D", "E", "B", "U", "G">>

LogLine(ts, token, msg) == ts \o <<" ", "[">> \o token \o <<"]", " ">> \o msg

RECURSIVE Concat(_)
Concat(ss) == IF ss = <<>> THEN <<>> ELSE Head(ss) \o Concat(Tail(ss))

\* The sequences of at most n elements of S.
SeqsUpTo(S, n) == UNION {[1..k -> S] : k \in 0..n}

\* The files made of at most n of the given lines, each followed by one of the
\* given terminators.
FilesOf(lines, terminators, n) ==
    LET units == {l \o t : l \in lines, t \in terminators}
    IN  {[exists |-> TRUE, size |-> Len(Concat(u)), content |-> Concat(u)] :
            u \in SeqsUpTo(units, n)}

LF == <<"\n">>
CRLF == <<"\r", "\n">>

DefaultArgs ==
    [top |-> None, errors_only |-> FALSE, search |-> None, since |-> None,
     until |-> None, parallel |-> FALSE, output |-> FALSE, format |-> "Text"]

MissingFile == [exists |-> FALSE, size |-> 0, content |-> <<>>]

\* What every specification below starts from, besides its own inputs.
ArgsBase ==
    {DefaultArgs,
     [DefaultArgs EXCEPT !.top = Some(<<"0">>)],
     [DefaultArgs EXCEPT !.output = TRUE],
     [DefaultArgs EXCEPT !.output = TRUE, !.errors_only = TRUE]}

FilesBase ==
    {MissingFile}
    \cup FilesOf({LogLine(Ts1, TokINFO, <<"o", "k">>), LogLine(Ts2, TokERROR, <<"a">>)}, {LF}, 1)

InitWith(A, F) ==
    /\ pc = "start"
    /\ args \in A
    /\ file \in F
    /\ cli = None
    /\ top_n = 0
    /\ use_parallel = FALSE
    /\ progress = FALSE
    /\ parsed = None
    /\ search_lower = None
    /\ filtered = <<>>
    /\ stats = None
    /\ analyze_calls = <<>>
    /\ out_file = None
    /\ stdout = <<>>
    /\ stderr = <<>>
    /\ io_error = None
    /\ exit_code = None

\* The runs of main: every kind of command line, on files of every size class.
ArgsMain ==
    {[top |-> t, errors_only |-> FALSE, search |-> None, since |-> s, until |-> u,
      parallel |-> p, output |-> o, format |-> f] :
        t \in {None, Some(<<"0">>), Some(<<"2">>), Some(<<"x">>)},
        s \in {None, Some(Ts2), Some(Date_2024_13_01)},
        u \in {None, Some(Ts1)},
        p \in BOOLEAN,
        o \in BOOLEAN,
        f \in {"Text", "Json", "Csv"}}

FileSizes == {PROGRESS_THRESHOLD - 1, PROGRESS_THRESHOLD, PARALLEL_THRESHOLD,
              PARALLEL_THRESHOLD + 1}

\* A file of a size the model cannot hold is its size and a short content that
\* stands for its lines.
FilesMain ==
    FilesBase
    \cup {[f EXCEPT !.size = n] :
            f \in FilesOf({LogLine(Ts1, TokINFO, <<"o", "k">>) \o LF
                              \o LogLine(Ts2, TokERROR, <<"a">>),
                           <<"x">>}, {LF}, 1),
            n \in FileSizes}

InitBase == InitWith(ArgsBase, FilesBase)

Init == InitBase \/ InitWith(ArgsMain, FilesMain)
Spec == Init /\ [][Next]_vars

\* Ingestion: files whose lines end in every way, read in both modes.
CR == <<"\r">>
LinesIngest ==
    {LogLine(Ts1, TokERROR, <<"a">>),
     LogLine(Ts2, TokINFO, <<>>),
     <<"x">>}
FilesIngest == FilesOf(LinesIngest, {LF, CRLF, CR \o CRLF, CR, <<>>}, MaxIngestLines)
ArgsIngest == {[DefaultArgs EXCEPT !.parallel = p] : p \in BOOLEAN}

InitIngest == InitBase \/ InitWith(ArgsIngest, FilesIngest)
SpecIngest == InitIngest /\ [][Next]_vars

\* The line parser: one line per file, built from every combination of a date, a
\* date-time separator, a time, a separator, a bracketed token, a separator and a
\* message, and some lines of no such shape.
TAB == <<"\t">>
SP == <<" ">>
ParseDates ==
    {Date_2024_01_15, Date_2024_02_29, Date_2023_02_29, Date_2024_13_01, Date_2024_1_15}
ParseDateSeps == {SP, SP \o SP, <<"T">>}
ParseTimes == {Time_10_30_45, Time_23_59_60, Time_24_00_00, Time_10_30}
ParseSeps == {SP, TAB \o SP, <<>>}
ParseTokens ==
    {TokINFO, <<"w", "a", "r", "n">>, <<"W", "a", "r", "n", "i", "n", "g">>,
     <<"E", "r", "R", "o", "R">>, TokDEBUG, <<"F", "A", "T", "A", "L">>, <<>>}
ParseMessages == {<<"a">>, <<>>, <<"a", " ", "[", "b", "]", " ">>}
OddLines ==
    {<<"n", "o", " ", "l", "o", "g">>,
     Ts1 \o SP \o TokERROR \o SP \o <<"a">>,
     SP \o LogLine(Ts1, TokERROR, <<"a">>),
     Date_2024_01_15 \o SP \o <<"[">> \o TokINFO \o <<"]">> \o SP \o <<"a">>}
LinesParse ==
    OddLines
    \cup {d \o ds \o t \o s1 \o <<"[">> \o tok \o <<"]">> \o s2 \o m :
            d \in ParseDates, ds \in ParseDateSeps, t \in ParseTimes, s1 \in ParseSeps,
            tok \in ParseTokens, s2 \in ParseSeps, m \in ParseMessages}
FilesParse == {[exists |-> TRUE, size |-> Len(l) + 1, content |-> l \o LF] : l \in LinesParse}

InitParse == InitBase \/ InitWith({DefaultArgs}, FilesParse)
SpecParse == InitParse /\ [][Next]_vars

\* The filter pipeline: short batches under every combination of the filters.
LinesFilter ==
    {LogLine(Ts1, TokERROR, <<"A", "p", "i">>),
     LogLine(Ts2, TokINFO, <<"o", "k">>),
     LogLine(Ts3, TokERROR, <<"d", "b">>)}
FilesFilter == FilesOf(LinesFilter, {LF}, MaxFilterLines)
ArgsFilter ==
    {[DefaultArgs EXCEPT !.errors_only = e, !.search = q, !.since = s, !.until = u] :
        e \in BOOLEAN,
        q \in {None, Some(<<"a">>), Some(<<"A", "P", "I">>), Some(<<"[", "e", "r", "r">>),
               Some(<<"5", " ", "[">>), Some(<<"z">>)},
        s \in {None, Some(Ts1), Some(Ts2)},
        u \in {None, Some(Ts2), Some(Ts3)}}

InitFilter == InitBase \/ InitWith(ArgsFilter, FilesFilter)
SpecFilter == InitFilter /\ [][Next]_vars

\* The aggregator: batches of ERROR and other entries, messages that repeat and
\* messages that tie, in two hours, under every bound on the top errors.
LinesAgg ==
    {LogLine(Ts1, TokERROR, <<"a">>),
     LogLine(Ts2, TokERROR, <<"b">>),
     LogLine(Ts3, TokERROR, <<"a">>),
     LogLine(Ts1, TokINFO, <<"c">>),
     LogLine(Ts3, TokWARN, <<"w">>)}
FilesAgg == FilesOf(LinesAgg, {LF}, MaxBatch)
ArgsAgg == {[DefaultArgs EXCEPT !.top = t] : t \in {None, Some(<<"1">>), Some(<<"2">>)}}

InitAgg == InitBase \/ InitWith(ArgsAgg, FilesAgg)
SpecAgg == InitAgg /\ [][Next]_vars

\* The accounting of skipped lines: the files of the ingestion, in both modes,
\* with and without filters.
ArgsSkipped ==
    {[DefaultArgs EXCEPT !.parallel = p, !.errors_only = f,
                         !.since = IF f THEN Some(Ts1) ELSE None] :
        p \in BOOLEAN, f \in BOOLEAN}

InitSkipped == InitBase \/ InitWith(ArgsSkipped, FilesIngest)
SpecSkipped == InitSkipped /\ [][Next]_vars
-----------------------------------------------------------------------------
(* The run of main: C4, C5, C6 *)

\* filter_entries has run and has kept nothing.
FilterKeptNothing == pc \in {"filtered", "done"} /\ parsed # None /\ filtered = <<>>

\* The fixed message is all that was emitted, at the output destination.
OnlyNoMatchEmitted ==
    IF args.output
    THEN out_file = Some(Line(MsgNoMatch, None)) /\ stdout = <<Line(MsgWritten, None)>>
    ELSE out_file = None /\ stdout = <<Line(MsgNoMatch, None)>>

\* analyze_logs was only ever called on a non-empty batch, and no Stats has a
\* total of 0.
AnalyzeOnlyNonEmpty ==
    /\ \A i \in DOMAIN analyze_calls : analyze_calls[i].entries # <<>>
    /\ (stats # None => stats[1].total_entries > 0)

\* C4, as claimed: whenever filtering keeps no entry, analyze_logs is never called,
\* no Stats is produced, and the run emits only the fixed message at the output
\* destination and exits with status 0; analyze_logs is only called on a non-empty
\* batch.
C4_NoMatchAlwaysSucceeds ==
    /\ AnalyzeOnlyNonEmpty
    /\ FilterKeptNothing =>
        /\ analyze_calls = <<>>
        /\ stats = None
        /\ (pc = "done" => exit_code = Some(0) /\ OnlyNoMatchEmitted)

\* C4, amended: whenever filtering keeps no entry, analyze_logs is never called and
\* no Stats is produced; the run emits only the fixed message at the output
\* destination and exits with status 0, unless writing the output file fails: then
\* nothing is emitted and the run fails with status 1. analyze_logs is only called
\* on a non-empty batch.
C4_NoMatchSkipsAnalysis ==
    /\ AnalyzeOnlyNonEmpty
    /\ FilterKeptNothing =>
        /\ analyze_calls = <<>>
        /\ stats = None
        /\ (pc = "done" =>
                IF io_error = None
                THEN exit_code = Some(0) /\ OnlyNoMatchEmitted
                ELSE /\ io_error[1].at = "write"
                     /\ args.output
                     /\ exit_code = Some(1)
                     /\ out_file = None /\ stdout = <<>>)

\* A run that parsed entries, filtered them all out and wrote the message to the
\* output file.
C4_Witness ==
    /\ pc = "done"
    /\ FilterKeptNothing
    /\ parsed[1].entries # <<>>
    /\ args.output
    /\ exit_code = Some(0)

\* --top is given and its value is 0.
TopIsZero == args.top # None /\ parse_usize(args.top[1]) = Some(0)
OtherArgsValid ==
    /\ (args.since = None \/ parse_datetime(args.since[1]).ok)
    /\ (args.until = None \/ parse_datetime(args.until[1]).ok)

\* C5: with --top 0 the run ends in argument validation: it fails (status 2) with a
\* validation message, which is "La valeur de --top doit etre au moins 1" when no
\* other argument is invalid; the file is never examined or opened, whether it
\* exists or not, and nothing is ingested or analysed. analyze_logs is never
\* called with top_n = 0.
C5_TopZeroRejected ==
    /\ \A i \in DOMAIN analyze_calls : analyze_calls[i].top_n >= 1
    /\ TopIsZero =>
        /\ pc \in {"start", "done"}
        /\ cli = None /\ parsed = None /\ io_error = None
        /\ analyze_calls = <<>> /\ stats = None
        /\ stdout = <<>> /\ out_file = None
        /\ (pc = "done" =>
                /\ exit_code = Some(2)
                /\ Len(stderr) = 1
                /\ stderr[1] \in ArgErrors(args)
                /\ (OtherArgsValid => stderr = <<MsgTopZero>>))

\* --top 0 on a missing file: the run has failed with the message of --top.
C5_Witness ==
    /\ TopIsZero
    /\ ~file.exists
    /\ pc = "done"
    /\ stderr = <<MsgTopZero>>
    /\ exit_code = Some(2)

\* The run has emitted no report.
NoReport == stdout = <<>> /\ out_file = None /\ stats = None

\* C6: a run that finds the input missing, at the metadata check or when it opens
\* the file, fails with "Fichier introuvable" and status 2 and emits no report;
\* a run that meets any other I/O failure fails with status 1; a run whose
\* arguments are valid ends with status 2 only when the input is missing.
C6_NotFoundDistinct ==
    pc = "done" =>
        /\ (io_error # None /\ io_error[1].kind = "NotFound"
                /\ io_error[1].at \in {"metadata", "open"} =>
                exit_code = Some(2) /\ stderr = <<MsgNotFound>> /\ NoReport)
        /\ (io_error # None /\ ~(io_error[1].kind = "NotFound"
                /\ io_error[1].at \in {"metadata", "open"}) =>
                exit_code = Some(1) /\ MsgNotFound \notin Range(stderr))
        /\ (cli # None /\ ~file.exists =>
                io_error # None /\ io_error[1].kind = "NotFound" /\ exit_code = Some(2))
        /\ (cli # None /\ exit_code = Some(2) =>
                io_error # None /\ io_error[1].kind = "NotFound" /\ ~file.exists)
        /\ (io_error = None /\ cli # None => exit_code = Some(0))

\* The file was there at the metadata check and gone when it was opened.
C6_Witness ==
    /\ pc = "done"
    /\ io_error = Some([at |-> "open", kind |-> "NotFound"])
    /\ use_parallel
    /\ exit_code = Some(2)
-----------------------------------------------------------------------------
(* Ingestion: C1 *)

\* The multiset of the elements of a sequence.
BagOf(s) == [x \in Range(s) |-> Cardinality({i \in DOMAIN s : s[i] = x})]

\* What the mode main did not choose returns for the same file.
OtherMode ==
    IF use_parallel THEN read_logs(file.content) ELSE read_logs_parallel(file.content)

\* C1: whatever the line endings of the file, the entries the ingestion returned
\* are, as a multiset, those the other ingestion mode returns for the same file.
C1_SameEntries ==
    parsed # None => BagOf(parsed[1].entries) = BagOf(OtherMode.entries)
-----------------------------------------------------------------------------
(* The line parser: C2 *)

\* The file is one line, ended by a line feed, with no other line break in it:
\* TheLine is what the parser is given.
OneLineFile ==
    /\ file.content # <<>>
    /\ file.content[Len(file.content)] = "\n"
    /\ \A i \in 1..(Len(file.content) - 1) : file.content[i] \notin {"\n", "\r"}
TheLine == SubSeq(file.content, 1, Len(file.content) - 1)

Blank(c) == c = " "
Whitespace(c) == c \in {" ", "\t", "\r", "\n"}

\* s is one or more characters, all of the kind Sep.
IsRun(s, Sep(_)) == s # <<>> /\ \A i \in DOMAIN s : Sep(s[i])

\* s is digits but for the character c at the places in at.
IsDigitPattern(s, n, at, c) ==
    /\ Len(s) = n
    /\ \A i \in 1..n : IF i \in at THEN s[i] = c ELSE s[i] \in Range(Digits)

\* ts is YYYY-MM-DD, a separator, HH:MM:SS.
IsTimestamp(ts, IsDateSep(_)) ==
    /\ Len(ts) >= 19
    /\ IsDigitPattern(SubSeq(ts, 1, 10), 10, {5, 8}, "-")
    /\ IsDateSep(SubSeq(ts, 11, Len(ts) - 8))
    /\ IsDigitPattern(SubSeq(ts, Len(ts) - 7, Len(ts)), 8, {3, 6}, ":")

TwoDigits(s, i) == 10 * (IndexIn(Digits, s[i]) - 1) + (IndexIn(Digits, s[i + 1]) - 1)

\* The date-time a timestamp of that shape writes.
WrittenDateTime(ts) ==
    LET n == Len(ts)
    IN  [year |-> 100 * TwoDigits(ts, 1) + TwoDigits(ts, 3), month |-> TwoDigits(ts, 6),
         day |-> TwoDigits(ts, 9), hour |-> TwoDigits(ts, n - 7),
         minute |-> TwoDigits(ts, n - 4), second |-> TwoDigits(ts, n - 1)]

MonthLengths(y) ==
    <<31, IF y % 400 = 0 \/ (y % 4 = 0 /\ y % 100 # 0) THEN 29 ELSE 28,
      31, 30, 31, 30, 31, 31, 30, 31, 30, 31>>

\* d is a date-time of the calendar, its seconds at most 60 (a leap second).
IsCalendar(d) ==
    /\ d.month \in 1..12
    /\ d.day \in 1..MonthLengths(d.year)[d.month]
    /\ d.hour \in 0..23
    /\ d.minute \in 0..59
    /\ d.second \in 0..60

\* The level tokens and the level each maps to.
LevelTokens ==
    {<<TokINFO, "Info">>, <<TokWARN, "Warning">>,
     <<TokWARN \o <<"I", "N", "G">>, "Warning">>, <<TokERROR, "Error">>,
     <<TokDEBUG, "Debug">>}
MappedLevels(tok) ==
    {p[2] : p \in {q \in LevelTokens : q[1] = [i \in DOMAIN tok |-> ToUpperChar(tok[i])]}}

\* The ways to read line as <timestamp><separator>[<token>]<separator><message>,
\* the separators runs of Sep and the message one character or more, none a line
\* feed: the timestamp ends at a, "[" is at b, "]" at c, the message starts at d.
Readings(line, Sep(_), IsDateSep(_)) ==
    LET n == Len(line)
        As == {a \in 1..n : IsTimestamp(SubSeq(line, 1, a), IsDateSep)}
        Bs(a) == {b \in (a + 2)..n : line[b] = "[" /\ IsRun(SubSeq(line, a + 1, b - 1), Sep)}
        Cs(b) == {c \in (b + 2)..n : line[c] = "]"}
        Ds(c) == {d \in (c + 2)..n :
                    /\ IsRun(SubSeq(line, c + 1, d - 1), Sep)
                    /\ \A k \in d..n : line[k] # "\n"}
    IN  UNION {UNION {UNION {{[timestamp |-> SubSeq(line, 1, a),
                               token |-> SubSeq(line, b + 1, c - 1),
                               message |-> SubSeq(line, d, n)] : d \in Ds(c)} :
                             c \in Cs(b)} : b \in Bs(a)} : a \in As}

\* The entries a line may give: one for each reading with a date-time of the
\* calendar and a known level token.
AllowedEntries(line, Sep(_), IsDateSep(_)) ==
    UNION {{[timestamp |-> r.timestamp, datetime |-> WrittenDateTime(r.timestamp),
             level |-> l, message |-> r.message] : l \in MappedLevels(r.token)} :
           r \in {x \in Readings(line, Sep, IsDateSep) :
                    IsCalendar(WrittenDateTime(x.timestamp))}}

\* The parser gave the one line of the file an entry, one of allowed, or allowed
\* is empty and it gave none and counted the line as skipped.
ParsedAs(allowed) ==
    IF allowed # {}
    THEN /\ Len(parsed[1].entries) = 1
         /\ parsed[1].entries[1] \in allowed
         /\ parsed[1].skipped = 0
    ELSE /\ parsed[1].entries = <<>>
         /\ parsed[1].skipped = 1

OneBlank(s) == s = <<" ">>
BlankRun(s) == IsRun(s, Blank)
WhitespaceRun(s) == IsRun(s, Whitespace)

\* C2 as stated: a line is given an entry exactly when it reads as
\* <YYYY-MM-DD HH:MM:SS><spaces>[<LEVEL>]<spaces><message> with a date-time of the
\* calendar and a known level token, the entry carrying the timestamp and the
\* message verbatim and the mapped level; every other line is given none.
C2_EntryExactlyForSpacedShape ==
    (parsed # None /\ OneLineFile) => ParsedAs(AllowedEntries(TheLine, Blank, OneBlank))

\* C2 amended: the same, the separators being runs of one or more whitespace
\* characters (blank, tab, ...), between the date and the time as well, and the
\* seconds running from 00 to 60.
C2_EntryExactlyForWhitespaceShape ==
    (parsed # None /\ OneLineFile)
        => ParsedAs(AllowedEntries(TheLine, Whitespace, WhitespaceRun))

\* A line with two blanks in its timestamp, a leap second, tabs in its separators,
\* a lower-case warn and a message with brackets and a trailing blank, parsed.
C2_Witness ==
    /\ parsed # None
    /\ OneLineFile
    /\ TheLine = Date_2024_02_29 \o SP \o SP \o Time_23_59_60 \o TAB \o SP
                    \o <<"[", "w", "a", "r", "n", "]">> \o TAB \o SP
                    \o <<"a", " ", "[", "b", "]", " ">>
    /\ Len(parsed[1].entries) = 1
    /\ parsed[1].entries[1].timestamp = Date_2024_02_29 \o SP \o SP \o Time_23_59_60
    /\ parsed[1].entries[1].level = "Warning"
    /\ parsed[1].entries[1].message = <<"a", " ", "[", "b", "]", " ">>
-----------------------------------------------------------------------------
(* The filter pipeline: C3 *)

FilterActed == parsed # None /\ pc # "parsed"

LevelName(level) ==
    CASE level = "Info" -> TokINFO
      [] level = "Warning" -> TokWARN \o <<"I", "N", "G">>
      [] level = "Error" -> TokERROR
      [] level = "Debug" -> TokDEBUG

\* "<timestamp> [<LEVEL>] <message>", lowercased.
LoweredRendering(e) ==
    LET r == e.timestamp \o <<" ", "[">> \o LevelName(e.level) \o <<"]", " ">> \o e.message
    IN  [i \in DOMAIN r |-> ToLowerChar(r[i])]

Occurs(term, text) ==
    \E i \in 0..(Len(text) - Len(term)) : SubSeq(text, i + 1, i + Len(term)) = term

\* a is at or after b: compared as days, then as seconds of the day.
DayKey(d) == (d.year * 13 + d.month) * 32 + d.day
SecondKey(d) == (d.hour * 60 + d.minute) * 61 + d.second
AtOrAfter(a, b) ==
    \/ DayKey(a) > DayKey(b)
    \/ DayKey(a) = DayKey(b) /\ SecondKey(a) >= SecondKey(b)

\* The entry passes every filter that is present.
Satisfies(e) ==
    /\ args.errors_only => e.level = "Error"
    /\ cli[1].since # None => AtOrAfter(e.datetime, cli[1].since[1])
    /\ cli[1].until # None => AtOrAfter(cli[1].until[1], e.datetime)
    /\ search_lower # None => Occurs(search_lower[1], LoweredRendering(e))

\* C3: the filtered batch is exactly the entries of the parsed batch that satisfy
\* every present filter (errors_only, since and until inclusive, search in the
\* lowercased rendering), in their original order and unmodified.
C3_FilterKeepsExactlySatisfying ==
    FilterActed =>
        LET entries == parsed[1].entries
            kept == {i \in DOMAIN entries : Satisfies(entries[i])}
        IN  \E f \in [DOMAIN filtered -> kept] :
                /\ \A i \in kept : \E k \in DOMAIN filtered : f[k] = i
                /\ \A j, k \in DOMAIN filtered : j < k => f[j] < f[k]
                /\ \A k \in DOMAIN filtered : filtered[k] = entries[f[k]]

\* All four filters present, the one entry kept lying exactly on the since bound,
\* the other dropped.
C3_Witness ==
    /\ FilterActed
    /\ args.errors_only
    /\ args.search = Some(<<"A", "P", "I">>)
    /\ cli[1].since # None /\ cli[1].until # None
    /\ Len(parsed[1].entries) = 2
    /\ Len(filtered) = 1
    /\ filtered[1].datetime = cli[1].since[1]
    /\ filtered[1].message = <<"A", "p", "i">>
-----------------------------------------------------------------------------
(* The aggregator: C7 to C10 *)

\* The entries of the aggregated batch that are errors, and their messages.
ErrorIndexes == {i \in DOMAIN filtered : filtered[i].level = "Error"}
ErrorMessages == {filtered[i].message : i \in ErrorIndexes}
Occurrences(m) == Cardinality({i \in ErrorIndexes : filtered[i].message = m})
FirstSeen(m) == CHOOSE i \in ErrorIndexes :
                    /\ filtered[i].message = m
                    /\ \A j \in ErrorIndexes : filtered[j].message = m => i <= j

RECURSIVE SumOver(_, _)
SumOver(f, keys) ==
    IF keys = {} THEN 0
    ELSE LET k == CHOOSE x \in keys : TRUE IN f[k] + SumOver(f, keys \ {k})

Levels == {"Info", "Warning", "Error", "Debug"}
CountOfLevel(l) == Cardinality({i \in DOMAIN filtered : filtered[i].level = l})

\* C7: by_level has a key for exactly the levels with an entry, each with the
\* number of entries of that level, so its values sum to total_entries, which is
\* the length of the batch.
C7_ByLevelCounts ==
    stats # None =>
        LET s == stats[1]
        IN  /\ DOMAIN s.by_level = {LevelName(l) : l \in {x \in Levels : CountOfLevel(x) >= 1}}
            /\ \A l \in Levels :
                  CountOfLevel(l) >= 1 => s.by_level[LevelName(l)] = CountOfLevel(l)
            /\ SumOver(s.by_level, DOMAIN s.by_level) = s.total_entries
            /\ s.total_entries = Len(filtered)

\* Two levels in a batch of three, one of them twice.
C7_Witness ==
    /\ stats # None
    /\ DOMAIN stats[1].by_level = {TokERROR, TokINFO}
    /\ stats[1].by_level[TokERROR] = 2
    /\ stats[1].by_level[TokINFO] = 1
    /\ stats[1].total_entries = 3

Listed == {stats[1].top_errors[i].message : i \in DOMAIN stats[1].top_errors}

\* C8: top_errors lists distinct ERROR messages with their exact counts, in
\* non-increasing order of count; its length is min(max(top_n, 1), number of
\* distinct ERROR messages); no omitted message has a greater count than a listed
\* one.
C8_TopErrors ==
    stats # None =>
        LET top == stats[1].top_errors
        IN  /\ \A i \in DOMAIN top :
                  /\ top[i].message \in ErrorMessages
                  /\ top[i].count = Occurrences(top[i].message)
            /\ \A i, j \in DOMAIN top : i # j => top[i].message # top[j].message
            /\ \A i, j \in DOMAIN top : i < j => top[i].count >= top[j].count
            /\ Len(top) = Min(Max(top_n, 1), Cardinality(ErrorMessages))
            /\ \A m \in ErrorMessages \ Listed :
                  \A i \in DOMAIN top : Occurrences(m) <= top[i].count

\* Two distinct messages, the one that occurs twice listed, the other cut.
C8_Witness ==
    /\ stats # None
    /\ top_n = 1
    /\ Cardinality(ErrorMessages) = 2
    /\ stats[1].top_errors = <<[message |-> <<"a">>, count |-> 2]>>
    /\ Occurrences(<<"b">>) = 1

\* C9 as stated: of two ERROR messages with the same count, the one first seen
\* earlier in the batch is listed first, and is the one kept when the truncation
\* cuts between them.
C9_TiesByFirstSeen ==
    stats # None =>
        LET top == stats[1].top_errors
        IN  /\ \A i, j \in DOMAIN top :
                  (i < j /\ top[i].count = top[j].count)
                      => FirstSeen(top[i].message) < FirstSeen(top[j].message)
            /\ \A m \in ErrorMessages \ Listed :
                  \A i \in DOMAIN top :
                      top[i].count = Occurrences(m) => FirstSeen(top[i].message) < FirstSeen(m)

\* C9 amended: the order of ERROR messages with equal counts, and which of them
\* the truncation keeps, is not determined; what the batch determines is the
\* counts listed: for every count v, the listed messages of count v or more are
\* as many as the batch has, up to the length of the list, and each is listed with
\* its own count.
C9_CountsDetermined ==
    stats # None =>
        LET top == stats[1].top_errors
            k == Min(Max(top_n, 1), Cardinality(ErrorMessages))
        IN  /\ Len(top) = k
            /\ \A i \in DOMAIN top :
                  top[i].message \in ErrorMessages /\ top[i].count = Occurrences(top[i].message)
            /\ \A v \in 1..(Len(filtered) + 1) :
                  /\ Cardinality({i \in DOMAIN top : top[i].count >= v})
                        = Min(k, Cardinality({m \in ErrorMessages : Occurrences(m) >= v}))
                  /\ \A i, j \in DOMAIN top :
                        (top[i].count >= v /\ top[j].count < v) => i < j

\* Two messages tie and the one first seen later is the one listed.
C9_Witness ==
    /\ stats # None
    /\ top_n = 1
    /\ Occurrences(<<"a">>) = 1 /\ Occurrences(<<"b">>) = 1
    /\ FirstSeen(<<"a">>) < FirstSeen(<<"b">>)
    /\ stats[1].top_errors = <<[message |-> <<"b">>, count |-> 1]>>

\* "HH:00" for the hour of the entry's date-time.
HourKey(e) ==
    <<Digits[(e.datetime.hour \div 10) + 1], Digits[(e.datetime.hour % 10) + 1], ":", "0", "0">>
ErrorsInHour(h) == Cardinality({i \in ErrorIndexes : HourKey(filtered[i]) = h})

\* C10: errors_by_hour has a key for exactly the hours with an ERROR entry, each
\* with the number of ERROR entries of that hour; error_rate_by_hour has the same
\* keys, and its value at h is errors_by_hour[h] / total_entries * 100, where
\* total_entries is the number of all the filtered entries.
C10_ErrorsByHour ==
    (stats # None /\ filtered # <<>>) =>
        LET s == stats[1]
        IN  /\ DOMAIN s.errors_by_hour = {HourKey(filtered[i]) : i \in ErrorIndexes}
            /\ \A h \in DOMAIN s.errors_by_hour : s.errors_by_hour[h] = ErrorsInHour(h)
            /\ DOMAIN s.error_rate_by_hour = DOMAIN s.errors_by_hour
            /\ s.total_entries = Len(filtered)
            /\ \A h \in DOMAIN s.error_rate_by_hour :
                  /\ s.error_rate_by_hour[h][2] > 0
                  /\ s.error_rate_by_hour[h][1] * s.total_entries
                        = s.errors_by_hour[h] * 100 * s.error_rate_by_hour[h][2]

\* Errors in two hours and an entry that is not an error: a rate of 100/3 each.
C10_Witness ==
    /\ stats # None
    /\ Len(filtered) = 3
    /\ Cardinality(ErrorIndexes) = 2
    /\ DOMAIN stats[1].errors_by_hour = {<<"1", "0", ":", "0", "0">>, <<"1", "1", ":", "0", "0">>}
    /\ stats[1].error_rate_by_hour[<<"1", "0", ":", "0", "0">>] = <<100, 3>>
-----------------------------------------------------------------------------
(* The accounting of skipped lines: C11 *)

\* The lines of a file: one for each line feed, and one more for what follows the
\* last line feed, if anything does.
LinesRead(content) ==
    Cardinality({i \in DOMAIN content : content[i] = "\n"})
        + (IF content # <<>> /\ content[Len(content)] # "\n" THEN 1 ELSE 0)

\* The lines themselves, without their line feed.
LineStarts(content) ==
    {i \in DOMAIN content : i = 1 \/ content[i - 1] = "\n"}
LineFrom(content, i) ==
    LET stops == {j \in i..Len(content) : content[j] = "\n"}
        stop == IF stops = {} THEN Len(content) + 1
                ELSE CHOOSE j \in stops : \A k \in stops : j <= k
    IN  SubSeq(content, i, stop - 1)

\* line, or line without some of the carriage returns at its end.
Stripped(line) ==
    {SubSeq(line, 1, n) : n \in {m \in 0..Len(line) :
                                   \A k \in (m + 1)..Len(line) : line[k] = "\r"}}

\* e is the entry of a line of the file.
EntryOfALine(e) ==
    \E i \in LineStarts(file.content) :
        \E l \in Stripped(LineFrom(file.content, i)) :
            e \in AllowedEntries(l, Whitespace, WhitespaceRun)

\* C11: in both modes every line read gives an entry or adds one to skipped, so
\* the entries and skipped add up to the lines read, and every entry is that of a
\* line of the file; the skipped_lines of the Stats is the count of the ingestion
\* whatever the filters.
C11_SkippedAccounting ==
    /\ parsed # None =>
        /\ Len(parsed[1].entries) + parsed[1].skipped = LinesRead(file.content)
        /\ \A i \in DOMAIN parsed[1].entries : EntryOfALine(parsed[1].entries[i])
    /\ stats # None => stats[1].skipped_lines = parsed[1].skipped

\* The parallel mode, filters present, a file whose first line is not a log line:
\* the line is counted, the run goes on, and the count reaches the Stats.
C11_Witness ==
    /\ stats # None
    /\ use_parallel
    /\ args.errors_only /\ args.since # None
    /\ file.content = <<"x">> \o LF \o LogLine(Ts1, TokERROR, <<"a">>) \o CRLF
    /\ Len(parsed[1].entries) = 1
    /\ parsed[1].skipped = 1
    /\ stats[1].skipped_lines = 1
    /\ stats[1].total_entries = 1
-----------------------------------------------------------------------------
(* The choice of the ingestion mode: C12 *)

\* The run is past the metadata check: the mode has been chosen.
ModeChosen ==
    \/ pc \in {"mode", "parsed", "filtered", "analyzed"}
    \/ pc = "done" /\ (parsed # None
                        \/ (io_error # None /\ io_error[1].at \in {"open", "read"}))

\* The override flag is set or the size is above 10 MiB.
ParallelExpected == args.parallel \/ file.size > 10 * 1024 * 1024

\* C12: the mode is parallel exactly when the override flag is set or the size is
\* strictly above 10 MiB, so 10 MiB exactly without the flag is sequential; the
\* progress indicator is attached from 5 MiB on, and the result of the ingestion
\* is that of the mode on the content, with or without the indicator.
C12_ModeFromFlagAndSize ==
    ModeChosen =>
        /\ use_parallel = ParallelExpected
        /\ (file.size = 10 * 1024 * 1024 /\ ~args.parallel => ~use_parallel)
        /\ progress = (file.size >= 5 * 1024 * 1024)
        /\ parsed # None =>
              parsed[1] = IF ParallelExpected THEN read_logs_parallel(file.content)
                          ELSE read_logs(file.content)

\* A file of exactly 10 MiB, no flag: read sequentially, under the indicator.
C12_Witness ==
    /\ file.size = 10 * 1024 * 1024
    /\ ~args.parallel
    /\ parsed # None
    /\ parsed[1].entries # <<>>
    /\ ~use_parallel
    /\ progress
====
